---- MODULE Spec2Model ----
(***************************************************************************)
(* State-machine model of the creative-studio backend proxy.               *)
(*                                                                         *)
(* Two builds of the same server are modelled, selected by `server`:       *)
(*   "simple"  - src/simple-backend-server.js (Node http, one async        *)
(*               handleRequest with suspension points at every await)      *)
(*   "express" - src/unnamed/part_000 (Express route handlers; the body is *)
(*               already parsed when a handler runs)                       *)
(*                                                                         *)
(* JavaScript values are tagged tuples so that values of different JS      *)
(* types can be compared: <<"undefined">>, <<"null">>, <<"str", s>>,       *)
(* <<"num", s>>, <<"arr", seq>>, <<"date", t>>.  A pathname is the         *)
(* sequence of its '/'-separated segments, each segment a tuple; a record  *)
(* id `${prefix}-${Date.now()}-${suffix}` is the tuple                     *)
(* <<prefix, now, suffix>>.                                                *)
(***************************************************************************)
EXTENDS Integers, Sequences, FiniteSets, TLC

VARIABLES
  server,      \* which build is running
  env,         \* names of the credentials present in process.env
  now,         \* the wall clock read by Date.now() / new Date()
  programmes,  \* the `programmes` object: user id -> array
  scripts,     \* the `scripts` object: user id -> array
  inflight,    \* handler invocations suspended at an await, by slot
  ev,          \* what the step just taken did (request, response, fetch)
  created,     \* history: every record ever created, in creation order
  deleted      \* history: number of successful deletes per record kind

vars == <<server, env, now, programmes, scripts, inflight, ev, created, deleted>>

(***************************************************************************)
(* Bounds of the model                                                     *)
(***************************************************************************)
MaxClock == 1       \* the clock takes the values 0..MaxClock
MaxCreated == 2     \* records created over the lifetime of the process
MaxInFlight == 1    \* handler invocations suspended at the same time
MaxDigit == 1       \* Math.random() yields 0 or one of MaxDigit other values
MaxRouted == 1      \* records created while the whole router is exercised

(***************************************************************************)
(* JavaScript values                                                       *)
(***************************************************************************)
Undefined == <<"undefined">>
Null == <<"null">>
Str(s) == <<"str", s>>
Num(s) == <<"num", s>>
Arr(q) == <<"arr", q>>
Date(t) == <<"date", t>>

\* JS truthiness of the values used here: undefined, null and '' are falsy.
Truthy(v) == v \notin {Undefined, Null, Str("")}

\* a || b
JsOr(a, b) == IF Truthy(a) THEN a ELSE b

Min(a, b) == IF a < b THEN a ELSE b

(***************************************************************************)
(* Requests: method, pathname, Authorization header (a character sequence, *)
(* <<>> when the header is absent) and, once read, the raw body            *)
(***************************************************************************)
Seg(s) == <<s>>
Bearer == <<"B", "e", "a", "r", "e", "r", " ">>

\* String.prototype.startsWith on character sequences / segment sequences
startsWith(s, prefix) ==
  /\ Len(s) >= Len(prefix)
  /\ SubSeq(s, 1, Len(prefix)) = prefix

\* String.prototype.slice(n)
slice(s, n) == SubSeq(s, n + 1, Len(s))

UserIds == {"demo-user", "other-user"}   \* keys the store objects may hold
NullUser == "null"

\* getUserId with one identity per token
getUserId_byToken(req) ==
  IF ~startsWith(req.auth, Bearer) \/ slice(req.auth, Len(Bearer)) = <<>>
  THEN NullUser
  ELSE IF req.auth = Bearer \o <<"x">> THEN "demo-user" ELSE "other-user"

\* getUserId without `if (!token) return null`
getUserId_anyBearer(req) ==
  IF startsWith(req.auth, Bearer) THEN "demo-user" ELSE NullUser

\* getUserId(req): null unless the header is 'Bearer ' + non-empty token;
\* the token itself is never inspected.
getUserId(req) ==
  LET authHeader == req.auth
      token == slice(authHeader, Len(Bearer))
  IN IF ~startsWith(authHeader, Bearer) THEN NullUser
     ELSE IF token = <<>> THEN NullUser
     ELSE "demo-user"

\* authenticateUser(req, res, next) of the Express build: the uid attached
\* to req.user, or null when it answers 401 itself.
authenticateUser(req) ==
  LET authHeader == req.auth
      token == IF startsWith(authHeader, Bearer)
               THEN slice(authHeader, Len(Bearer)) ELSE <<>>
  IN IF token = <<>> THEN NullUser ELSE "demo-user"

(***************************************************************************)
(* Identifiers                                                             *)
(***************************************************************************)
SuffixLen == 9

\* The base-36 digits of Math.random() after "0." (none when it returns 0).
MathRandom == {<<>>} \cup {<<d>> : d \in 1..MaxDigit}

\* Math.random().toString(36).substr(2, 9)
substr29(digits) == SubSeq(digits, 1, Min(SuffixLen, Len(digits)))

\* generateId(prefix) with Date.now() = t and Math.random() = r
generateId(prefix, t, r) == <<prefix, t, substr29(r)>>

Kinds == {"programme", "script"}

(***************************************************************************)
(* Request bodies                                                          *)
(***************************************************************************)
BodyKeys == {"model", "prompt", "name", "genre", "targetAudience",
             "episodeLength", "styleReferences", "programmeId", "topic",
             "content", "sources"}

\* a JSON object: the value of every key, undefined when the key is absent
EmptyObject == [k \in BodyKeys |-> Undefined]

\* raw request data: nothing, text that is not JSON, the JSON text null, the
\* JSON text of an object (value is the object, {} when there is none)
NoData == [text |-> "empty", value |-> EmptyObject]
BadJson == [text |-> "malformed", value |-> EmptyObject]
JsonNull == [text |-> "null", value |-> EmptyObject]
Json(obj) == [text |-> "object", value |-> obj]

\* parseRequestBody: resolves {} for no data and the parsed value for JSON
\* text (isNull: the value is null), rejects with the SyntaxError of
\* JSON.parse otherwise.
parseRequestBody(data) ==
  [rejected |-> data.text = "malformed",
   isNull |-> data.text = "null",
   value |-> IF data.text = "object" THEN data.value ELSE EmptyObject]

ProgrammeBodies ==
  { [EmptyObject EXCEPT !["name"] = Str("n1"), !["genre"] = Str("g1"),
                        !["targetAudience"] = Str("t1"),
                        !["episodeLength"] = Str("30"),
                        !["styleReferences"] = Arr(<<"s1">>)],
    [EmptyObject EXCEPT !["name"] = Str("n2")] }

ScriptBodies ==
  { [EmptyObject EXCEPT !["programmeId"] = Str("p1"), !["topic"] = Str("q1"),
                        !["content"] = Str("c1"),
                        !["sources"] = Arr(<<"u1">>)],
    [EmptyObject EXCEPT !["content"] = Str("c2")] }

ModelValues == {Undefined, Str("gemini"), Str("Claude"), Str("openai"),
                Str("chatgpt"), Str("bogus"), Num("123")}
PromptValues == {Undefined, Str(""), Str("hi")}

GenerateBodies ==
  { [EmptyObject EXCEPT !["model"] = m, !["prompt"] = p] :
      m \in ModelValues, p \in PromptValues }

\* String(model): the text of a string or number, 'undefined' for undefined
String(v) == IF v = Undefined THEN "undefined" ELSE v[2]

\* String.prototype.toLowerCase on the model names used here
toLowerCase(s) ==
  CASE s = "Claude" -> "claude"
    [] s = "GEMINI" -> "gemini"
    [] OTHER -> s

(***************************************************************************)
(* Arrays of records.  JS index i is position i + 1 of the sequence.  An   *)
(* array can be sparse: Hole is an index below length holding nothing.     *)
(* Every record also carries two history fields that the server does not   *)
(* have: seq (its rank among all creations) and owner (the user id it was  *)
(* created for); the object spread copies them with the rest.              *)
(***************************************************************************)
Hole == [hole |-> TRUE]

ThrewTypeError == 0 - 2

\* list.findIndex((p) => p.id === id): the first index whose record has the
\* id, -1 when none has; reading p.id of a hole throws a TypeError.
RECURSIVE findFrom(_, _, _)
findFrom(list, id, i) ==
  IF i >= Len(list) THEN 0 - 1
  ELSE IF list[i + 1] = Hole THEN ThrewTypeError
  ELSE IF list[i + 1].id = id THEN i
  ELSE findFrom(list, id, i + 1)

findIndex(list, id) == findFrom(list, id, 0)

\* list.push(record) in place of list.unshift(record)
unshift_push(list, record) == list \o <<record>>

\* list.unshift(record)
unshift(list, record) == <<record>> \o list

\* list.splice(index): with no count, everything from index on is removed
splice_tail(list, index) == SubSeq(list, 1, index)

\* list.splice(index, 1)
splice(list, index) ==
  [i \in 1..(Len(list) - 1) |-> IF i <= index THEN list[i] ELSE list[i + 1]]

\* list[index] = value; writing at or past length extends the array and
\* leaves holes between the old end and index.
setAt(list, index, value) ==
  [i \in 1..(IF index + 1 > Len(list) THEN index + 1 ELSE Len(list)) |->
     IF i = index + 1 THEN value
     ELSE IF i <= Len(list) THEN list[i] ELSE Hole]

\* the own properties copied by {...list[index]}: none for undefined
BlankProgramme ==
  [id |-> Undefined, name |-> Undefined, genre |-> Undefined,
   targetAudience |-> Undefined, episodeLength |-> Undefined,
   styleReferences |-> Undefined, createdAt |-> Undefined,
   updatedAt |-> Undefined, seq |-> 0, owner |-> "none"]

BlankScript ==
  [id |-> Undefined, programmeId |-> Undefined, topic |-> Undefined,
   content |-> Undefined, sources |-> Undefined, createdAt |-> Undefined,
   updatedAt |-> Undefined, seq |-> 0, owner |-> "none"]

Blank(kind) == IF kind = "programme" THEN BlankProgramme ELSE BlankScript

spread(list, index, kind) ==
  IF index >= Len(list) THEN Blank(kind)
  ELSE IF list[index + 1] = Hole THEN Blank(kind)
  ELSE list[index + 1]

\* the object built by POST /api/programmes and POST /api/scripts; the
\* Express build spells generateId out in the handler as the same template
newRecord(kind, body, id, t, n, userId) ==
  IF kind = "programme"
  THEN [id |-> id, name |-> body["name"], genre |-> body["genre"],
        targetAudience |-> body["targetAudience"],
        episodeLength |-> body["episodeLength"],
        styleReferences |-> JsOr(body["styleReferences"], Arr(<<>>)),
        createdAt |-> Date(t), updatedAt |-> Undefined,
        seq |-> n, owner |-> userId]
  ELSE [id |-> id, programmeId |-> body["programmeId"],
        topic |-> body["topic"], content |-> body["content"],
        sources |-> body["sources"], createdAt |-> Date(t),
        updatedAt |-> Undefined, seq |-> n, owner |-> userId]

\* the object built by PUT: the old record with its mutable fields replaced.
\* The Express build stores styleReferences as sent, without `|| []`.
updatedRecord(srv, kind, old, body, t) ==
  IF kind = "programme"
  THEN [old EXCEPT !.name = body["name"], !.genre = body["genre"],
                   !.targetAudience = body["targetAudience"],
                   !.episodeLength = body["episodeLength"],
                   !.styleReferences =
                      IF srv = "simple"
                      THEN JsOr(body["styleReferences"], Arr(<<>>))
                      ELSE body["styleReferences"],
                   !.updatedAt = Date(t)]
  ELSE [old EXCEPT !.content = body["content"], !.sources = body["sources"],
                   !.updatedAt = Date(t)]

\* programmes[userId] || []  (an absent key and an empty array are both <<>>)
listOf(store, userId) == store[userId]

\* one array shared by all keys in place of one array per key
withList_shared(store, userId, list) == [u \in DOMAIN store |-> list]

\* the store object after the array of userId has become list
withList(store, userId, list) == [store EXCEPT ![userId] = list]

(***************************************************************************)
(* Responses                                                               *)
(***************************************************************************)
CorsHeaders == {"Access-Control-Allow-Origin", "Access-Control-Allow-Methods",
                "Access-Control-Allow-Headers"}
NoPayload == <<"nothing">>
Error(msg) == <<"error", msg>>
EmptyJson == <<"object">>
HealthOk == <<"status", "ok">>

\* sendJson(res, statusCode, obj)
sendJson(statusCode, obj) ==
  [status |-> statusCode, headers |-> CorsHeaders \cup {"Content-Type"},
   payload |-> obj]

\* res.status(statusCode).json(obj) of the Express build
expressJson(statusCode, obj) ==
  [status |-> statusCode,
   headers |-> {"Access-Control-Allow-Origin", "Content-Type"},
   payload |-> obj]

\* the preflight answered through sendJson
preflight_json == sendJson(204, EmptyJson)

\* res.writeHead(204, cors); res.end()
preflight == [status |-> 204, headers |-> CorsHeaders, payload |-> NoPayload]


(***************************************************************************)
(* Provider adapters                                                       *)
(***************************************************************************)
Credentials == {"GEMINI_API_KEY", "CLAUDE_API_KEY", "OPENAI_API_KEY"}

\* the branch taken by switch (...toLowerCase()) of the generate handler
providerOf(name) ==
  CASE name = "gemini" -> "Gemini"
    [] name = "claude" -> "Claude"
    [] name = "openai" -> "OpenAI"
    [] name = "chatgpt" -> "OpenAI"
    [] OTHER -> "none"

\* the variable read by callGemini / callClaude / callOpenAI
apiKeyName(provider) ==
  CASE provider = "Gemini" -> "GEMINI_API_KEY"
    [] provider = "Claude" -> "CLAUDE_API_KEY"
    [] OTHER -> "OPENAI_API_KEY"

\* an adapter without its `if (!apiKey) throw`
apiKeyMissing_never(provider, environment) == FALSE

\* if (!apiKey) throw new Error('... not configured')
apiKeyMissing(provider, environment) == apiKeyName(provider) \notin environment

NotConfigured(provider) == <<apiKeyName(provider), "not configured">>
ApiError(provider, status, text) == <<provider, "API error:", status, text>>

(***************************************************************************)
(* Requests the clients can send                                           *)
(***************************************************************************)
Methods == {"GET", "POST", "PUT", "DELETE", "OPTIONS", "PATCH"}

ValidAuth == Bearer \o <<"x">>
AuthHeaders == {<<>>, Bearer, ValidAuth, Bearer \o <<"y">>,
                <<"B", "a", "s", "i", "c", " ", "x">>}

HealthPath == <<Seg("api"), Seg("health")>>
GeneratePath == <<Seg("api"), Seg("generate")>>
UnknownPath == <<Seg("nowhere")>>

collectionPath(kind) ==
  <<Seg("api"), Seg(IF kind = "programme" THEN "programmes" ELSE "scripts")>>

itemPath(kind, id) == collectionPath(kind) \o <<id>>

\* the ids a client can name: those some create has returned, and one that
\* no create returns
KnownIds(kind) ==
  {created[i].id : i \in {j \in 1..Len(created) : created[j].kind = kind}}
    \cup {Seg("nosuch")}

RecordPaths ==
  {collectionPath(k) : k \in Kinds}
    \cup UNION {{itemPath(k, id) : id \in KnownIds(k)} : k \in Kinds}

\* the requests of the record routes, with and without a bearer token
StoreRequests ==
  [method : {"GET", "POST", "PUT", "DELETE"}, path : RecordPaths,
   auth : {<<>>, ValidAuth}]

\* every method on every path with every kind of Authorization header,
\* except the authenticated calls of the generation proxy
RouterRequests ==
  {r \in [method : Methods,
          path : RecordPaths \cup {HealthPath, GeneratePath, UnknownPath},
          auth : AuthHeaders] :
     ~(r.method = "POST" /\ r.path = GeneratePath /\ getUserId(r) # NullUser)}

\* the calls of the generation proxy
GenerateRequests ==
  [method : {"POST"}, path : {GeneratePath}, auth : {<<>>, ValidAuth}]

\* pathname === '/api/programmes' (or '/api/scripts')
isCollection(path, kind) == path = collectionPath(kind)

\* pathname.startsWith('/api/programmes/') (or '/api/scripts/')
isItem(path, kind) ==
  /\ Len(path) > Len(collectionPath(kind))
  /\ startsWith(path, collectionPath(kind))

\* pathname.split('/').pop()
lastSegment(path) == path[Len(path)]

\* the record kind whose block of handleRequest the pathname enters
routeKind(path) ==
  IF isCollection(path, "programme") \/ isItem(path, "programme")
  THEN "programme"
  ELSE IF isCollection(path, "script") \/ isItem(path, "script")
       THEN "script"
       ELSE "none"

(***************************************************************************)
(* State                                                                   *)
(***************************************************************************)
\* the handlers that can be in flight at once
Slots == DOMAIN inflight
Idle == [pc |-> "idle", route |-> "none"]
Unread == [text |-> "unread", value |-> EmptyObject]

store(kind) == IF kind = "programme" THEN programmes ELSE scripts

\* the parts of the state a handler step can change, left as they are
Base ==
  [programmes |-> programmes, scripts |-> scripts,
   created |-> created, deleted |-> deleted]

storeChange(kind, userId, list) ==
  IF kind = "programme"
  THEN [programmes |-> withList(programmes, userId, list)]
  ELSE [scripts |-> withList(scripts, userId, list)]

\* a handler that writes its response and keeps running to its next await
Answer_keepsRunning(r, data, uid, resp, provider, calls) ==
  [slot |-> [pc |-> "body", req |-> r, userId |-> uid, route |-> "generate",
             kind |-> "none", index |-> 0, provider |-> "none",
             upstream |-> 0],
   ev |-> [type |-> "respond", req |-> r, data |-> data, userId |-> uid,
           status |-> resp.status, headers |-> resp.headers,
           payload |-> resp.payload, fetch |-> "none",
           provider |-> provider, calls |-> calls]]

\* A step that ends the handler with a response.
Answer(r, data, uid, resp, provider, calls) ==
  [slot |-> Idle,
   ev |-> [type |-> "respond", req |-> r, data |-> data, userId |-> uid,
           status |-> resp.status, headers |-> resp.headers,
           payload |-> resp.payload, fetch |-> "none",
           provider |-> provider, calls |-> calls]]

\* A step that ends at an await: the handler stays in flight as `slot`.
Suspend(r, data, uid, slot, fetch, calls) ==
  [slot |-> slot,
   ev |-> [type |-> "await", req |-> r, data |-> data, userId |-> uid,
           status |-> 0, headers |-> {}, payload |-> NoPayload,
           fetch |-> fetch, provider |-> slot.provider, calls |-> calls]]

Waiting(pc, r, uid, route, kind, index, provider, upstream) ==
  [pc |-> pc, req |-> r, userId |-> uid, route |-> route, kind |-> kind,
   index |-> index, provider |-> provider, upstream |-> upstream]

\* a JSON response written by the running build
reply(statusCode, obj) ==
  IF server = "simple" THEN sendJson(statusCode, obj)
  ELSE expressJson(statusCode, obj)

Unauthorized == sendJson(401, Error(<<"Missing or invalid authorization token">>))
NotFound == sendJson(404, Error(<<"Not found">>))
RecordNotFound(kind) == reply(404, Error(<<kind, "not found">>))
TypeError == <<"TypeError">>
SyntaxError == <<"SyntaxError">>

\* catch (err) { sendJson(res, 500, { error: err.message || ... }) }, and
\* catch (err) { res.status(500).json({ error: err.message }) } of Express
InternalError(message) == reply(500, Error(message))

(***************************************************************************)
(* The generate handler                                                    *)
(***************************************************************************)
UpstreamStatuses == {200, 429}
UpstreamJson == <<"upstream json">>
UpstreamText == "quota exceeded"

\* an adapter that serves a configured provider from a cache, without a call
invoke_cached(r, data, uid, provider) ==
  IF apiKeyMissing(provider, env)
  THEN Answer(r, data, uid, InternalError(NotConfigured(provider)),
              provider, 0) @@ Base
  ELSE Answer(r, data, uid, reply(200, UpstreamJson), provider, 0) @@ Base

\* callGemini / callClaude / callOpenAI from entry to the await of fetch:
\* throws when the credential is absent, otherwise issues the one call.
invoke(r, data, uid, provider) ==
  IF apiKeyMissing(provider, env)
  THEN Answer(r, data, uid, InternalError(NotConfigured(provider)),
              provider, 0) @@ Base
  ELSE Suspend(r, data, uid,
               Waiting("fetch", r, uid, "generate", "none", 0, provider, 0),
               provider, 1) @@ Base

\* simple build: const { model, prompt } = body;  if (!model || !prompt) ...
\* switch (String(model).toLowerCase())
generateSimple(r, data, uid, body) ==
  LET model == body["model"]
      prompt == body["prompt"]
      provider == providerOf(toLowerCase(String(model)))
  IN IF ~Truthy(model) \/ ~Truthy(prompt)
     THEN Answer(r, data, uid,
                 sendJson(400, Error(<<"Missing model or prompt">>)),
                 "none", 0) @@ Base
     ELSE IF provider = "none"
          THEN Answer(r, data, uid,
                      sendJson(400, Error(<<"Unsupported model">>)),
                      "none", 0) @@ Base
          ELSE invoke(r, data, uid, provider)

\* Express build: switch ((model || '').toLowerCase()) inside try/catch;
\* a truthy model that is not a string has no toLowerCase method.
generateExpress(r, data, uid, body) ==
  LET m == JsOr(body["model"], Str(""))
  IN IF m[1] # "str"
     THEN Answer(r, data, uid, InternalError(TypeError), "none", 0) @@ Base
     ELSE IF providerOf(toLowerCase(m[2])) = "none"
          THEN Answer(r, data, uid,
                      expressJson(400, Error(<<"Unsupported model">>)),
                      "none", 0) @@ Base
          ELSE invoke(r, data, uid, providerOf(toLowerCase(m[2])))

(***************************************************************************)
(* The record handlers                                                     *)
(***************************************************************************)
\* a create that fails with 500 after it has put the record into the array
createRecord_thenFails(r, data, uid, kind, body, rnd) ==
  LET record == newRecord(kind, body, generateId(kind, now, rnd), now,
                          Len(created) + 1, uid)
  IN storeChange(kind, uid, unshift(listOf(store(kind), uid), record))
       @@ [created |-> Append(created, [userId |-> uid, kind |-> kind,
                                        id |-> record.id,
                                        auth |-> r.auth])]
       @@ Answer(r, data, uid, InternalError(TypeError), "none", 0)
       @@ Base

\* POST /api/programmes, POST /api/scripts once the body is known
createRecord(r, data, uid, kind, body, rnd) ==
  LET record == newRecord(kind, body, generateId(kind, now, rnd), now,
                          Len(created) + 1, uid)
  IN storeChange(kind, uid, unshift(listOf(store(kind), uid), record))
       @@ [created |-> Append(created, [userId |-> uid, kind |-> kind,
                                        id |-> record.id,
                                        auth |-> r.auth])]
       @@ Answer(r, data, uid, reply(201, record), "none", 0)
       @@ Base

\* PUT .../:id once the body is known; `index` was computed before the body
\* was read, the array is read again now
updateRecord(r, data, uid, kind, index, body) ==
  LET list == listOf(store(kind), uid)
      updated == updatedRecord(server, kind, spread(list, index, kind),
                               body, now)
  IN storeChange(kind, uid, setAt(list, index, updated))
       @@ Answer(r, data, uid, reply(200, updated), "none", 0)
       @@ Base

\* DELETE .../:id
deleteRecord(r, uid, kind, index, resp) ==
  storeChange(kind, uid, splice(listOf(store(kind), uid), index))
    @@ [deleted |-> [deleted EXCEPT ![kind] = @ + 1]]
    @@ Answer(r, Unread, uid, resp, "none", 0)
    @@ Base

(***************************************************************************)
(* handleRequest of the simple build, cut at its awaits                    *)
(***************************************************************************)
\* from the entry of handleRequest to its response or its first await
handleRequestEntry(r) ==
  LET uid == getUserId(r)
      kind == routeKind(r.path)
  IN
  IF r.method = "OPTIONS"
  THEN Answer(r, Unread, NullUser, preflight, "none", 0) @@ Base
  ELSE IF r.method = "GET" /\ r.path = HealthPath
  THEN Answer(r, Unread, NullUser, sendJson(200, HealthOk), "none", 0) @@ Base
  ELSE IF r.method = "POST" /\ r.path = GeneratePath
  THEN IF uid = NullUser
       THEN Answer(r, Unread, uid, Unauthorized, "none", 0) @@ Base
       ELSE Suspend(r, Unread, uid,
                    Waiting("body", r, uid, "generate", "none", 0, "none", 0),
                    "none", 0) @@ Base
  ELSE IF kind # "none" /\ isCollection(r.path, kind)
  THEN IF uid = NullUser
       THEN Answer(r, Unread, uid, Unauthorized, "none", 0) @@ Base
       ELSE IF r.method = "GET"
       THEN Answer(r, Unread, uid,
                   sendJson(200, listOf(store(kind), uid)), "none", 0) @@ Base
       ELSE IF r.method = "POST"
       THEN Suspend(r, Unread, uid,
                    Waiting("body", r, uid, "create", kind, 0, "none", 0),
                    "none", 0) @@ Base
       ELSE Answer(r, Unread, uid, NotFound, "none", 0) @@ Base
  ELSE IF kind # "none"
  THEN IF uid = NullUser
       THEN Answer(r, Unread, uid, Unauthorized, "none", 0) @@ Base
       ELSE LET list == listOf(store(kind), uid)
                index == findIndex(list, lastSegment(r.path))
            IN IF index = ThrewTypeError
               THEN Answer(r, Unread, uid, InternalError(TypeError),
                           "none", 0) @@ Base
               ELSE IF index = 0 - 1
               THEN Answer(r, Unread, uid, RecordNotFound(kind),
                           "none", 0) @@ Base
               ELSE IF r.method = "PUT"
               THEN Suspend(r, Unread, uid,
                            Waiting("body", r, uid, "update", kind, index,
                                    "none", 0),
                            "none", 0) @@ Base
               ELSE IF r.method = "DELETE"
               THEN deleteRecord(r, uid, kind, index, sendJson(204, EmptyJson))
               ELSE Answer(r, Unread, uid, NotFound, "none", 0) @@ Base
  ELSE Answer(r, Unread, NullUser, NotFound, "none", 0) @@ Base

\* from the end of `await parseRequestBody(req)` to the response or the
\* next await
handleRequestBody(w, data, rnd) ==
  LET parsed == parseRequestBody(data)
  IN IF parsed.rejected
     THEN Answer(w.req, data, w.userId, InternalError(SyntaxError),
                 "none", 0) @@ Base
     ELSE IF parsed.isNull
     THEN Answer(w.req, data, w.userId, InternalError(TypeError),
                 "none", 0) @@ Base
     ELSE IF w.route = "generate"
     THEN generateSimple(w.req, data, w.userId, parsed.value)
     ELSE IF w.route = "create"
     THEN createRecord(w.req, data, w.userId, w.kind, parsed.value, rnd)
     ELSE updateRecord(w.req, data, w.userId, w.kind, w.index, parsed.value)

(***************************************************************************)
(* Route handlers of the Express build: authenticateUser, then the handler *)
(* with req.body already parsed into an object                             *)
(***************************************************************************)
\* the (method, path) pairs app.get/post/put/delete register
registered(r) ==
  \/ r.method = "GET" /\ r.path = HealthPath
  \/ r.method = "POST" /\ r.path = GeneratePath
  \/ \E k \in Kinds :
       \/ r.method \in {"GET", "POST"} /\ isCollection(r.path, k)
       \/ /\ r.method \in {"PUT", "DELETE"}
          /\ isItem(r.path, k)
          /\ Len(r.path) = Len(collectionPath(k)) + 1

expressEntry(r, body, rnd) ==
  LET uid == authenticateUser(r)
      kind == routeKind(r.path)
      data == Json(body)
  IN
  IF r.path = HealthPath
  THEN Answer(r, data, NullUser, expressJson(200, HealthOk), "none", 0) @@ Base
  ELSE IF uid = NullUser
  THEN Answer(r, data, uid,
              expressJson(401, Error(<<"Missing authorization token">>)),
              "none", 0) @@ Base
  ELSE IF r.path = GeneratePath
  THEN generateExpress(r, data, uid, body)
  ELSE IF isCollection(r.path, kind)
  THEN IF r.method = "GET"
       THEN Answer(r, data, uid,
                   expressJson(200, listOf(store(kind), uid)), "none", 0) @@ Base
       ELSE createRecord(r, data, uid, kind, body, rnd)
  ELSE LET index == findIndex(listOf(store(kind), uid), lastSegment(r.path))
       IN IF index < 0
          THEN Answer(r, data, uid, RecordNotFound(kind), "none", 0) @@ Base
          ELSE IF r.method = "PUT"
          THEN updateRecord(r, data, uid, kind, index, body)
          ELSE deleteRecord(r, uid, kind, index, expressJson(204, NoPayload))

(***************************************************************************)
(* Actions                                                                 *)
(***************************************************************************)
NoEvent == [type |-> "none"]

\* The step of slot s with outcome o; `phase` names the part of the handler
\* that ran: "entry", "body" (after the body was read), "fetch", "read".
Apply(s, o, phase) ==
  /\ programmes' = o.programmes
  /\ scripts' = o.scripts
  /\ created' = o.created
  /\ deleted' = o.deleted
  /\ inflight' = [inflight EXCEPT ![s] = o.slot]
  /\ ev' = [phase |-> phase] @@ o.ev
  /\ UNCHANGED <<server, env, now>>

FreeSlots == {s \in Slots : inflight[s].pc = "idle"}
BusySlots == Slots \ FreeSlots

\* creations that are in flight or done
Creating ==
  Len(created) + Cardinality({s \in BusySlots : inflight[s].route = "create"})

\* `ev` is the observation of one step: it is cleared before the next step
\* of the server is taken, so that no step is judged by the event of another.
Forget ==
  /\ ev.type # "none"
  /\ ev' = NoEvent
  /\ UNCHANGED <<server, env, now, programmes, scripts, inflight, created,
                 deleted>>

\* Time passes.
Tick ==
  /\ ev.type = "none"
  /\ now < MaxClock
  /\ now' = now + 1
  /\ UNCHANGED <<server, env, programmes, scripts, inflight, ev, created,
                 deleted>>

\* simple build: a request of `menu` arrives and handleRequest runs to its
\* response or to its first await; at most `cap` records are ever created.
handleRequest(menu, cap) ==
  /\ server = "simple"
  /\ ev.type = "none"
  /\ \E r \in menu :
       LET o == handleRequestEntry(r)
       IN IF o.slot.pc = "idle"
          THEN Apply(1, [o EXCEPT !.slot = inflight[1]], "entry")
          ELSE /\ FreeSlots # {}
               /\ o.slot.route = "create" => Creating < cap
               /\ Apply(CHOOSE f \in FreeSlots : \A g \in FreeSlots : f <= g, o,
                        "entry")

BodiesOf(w) ==
  IF w.route = "generate" THEN GenerateBodies
  ELSE IF w.kind = "programme" THEN ProgrammeBodies ELSE ScriptBodies

DataOf(w) == {NoData, BadJson, JsonNull} \cup {Json(b) : b \in BodiesOf(w)}

\* a server on which a pending provider call blocks the event loop: no body
\* read completes while a fetch is outstanding
requestBodyEndAt_blocked(s) ==
  /\ \A t \in Slots : inflight[t].pc \notin {"fetch", "hung"}
  /\ ev.type = "none"
  /\ inflight[s].pc = "body"
  /\ \E data \in DataOf(inflight[s]), rnd \in MathRandom :
       Apply(s, handleRequestBody(inflight[s], data, rnd), "body")

\* simple build: the body of a suspended request has been read ('end') and
\* the handler resumes after `await parseRequestBody(req)`.
requestBodyEndAt(s) ==
  /\ ev.type = "none"
  /\ inflight[s].pc = "body"
  /\ \E data \in DataOf(inflight[s]), rnd \in MathRandom :
       Apply(s, handleRequestBody(inflight[s], data, rnd), "body")

requestBodyEnd == \E s \in BusySlots : requestBodyEndAt(s)

ExpressBodiesOf(r) ==
  IF r.path = GeneratePath THEN GenerateBodies
  ELSE IF r.method \in {"GET", "DELETE"} THEN {EmptyObject}
  ELSE IF routeKind(r.path) = "programme"
       THEN ProgrammeBodies \cup {EmptyObject}
       ELSE ScriptBodies \cup {EmptyObject}

\* Express build: a request of `menu` on a registered route arrives and its
\* middleware and handler run to the response or to the await of fetch.
expressRequest(menu, cap) ==
  /\ server = "express"
  /\ ev.type = "none"
  /\ \E r \in {q \in menu : registered(q)} :
       \E body \in ExpressBodiesOf(r), rnd \in MathRandom :
         LET o == expressEntry(r, body, rnd)
         IN IF o.slot.pc = "idle"
            THEN /\ Len(o.created) <= cap
                 /\ Apply(1, [o EXCEPT !.slot = inflight[1]], "entry")
            ELSE /\ FreeSlots # {}
                 /\ Apply(CHOOSE f \in FreeSlots : \A g \in FreeSlots : f <= g,
                          o, "entry")

\* response.ok taken to be true whatever the status
ok_always(status) == TRUE

\* response.ok
ok(status) == status \in 200..299

\* both builds: the fetch of a suspended adapter call settles: it rejects
\* (transport error) or resolves to a response with some status.
fetchSettledAt(s) ==
  /\ ev.type = "none"
  /\ LET w == inflight[s]
     IN /\ w.pc = "fetch"
        /\ \/ Apply(s, Answer(w.req, Unread, w.userId,
                              InternalError(<<"fetch failed">>),
                              w.provider, 1) @@ Base, "fetch")
           \/ \E status \in UpstreamStatuses :
                Apply(s, Suspend(w.req, Unread, w.userId,
                                 [w EXCEPT !.pc = "read",
                                           !.upstream = status],
                                 "none", 1) @@ Base, "fetch")

fetchSettled == \E s \in BusySlots : fetchSettledAt(s)

\* both builds: `await response.json()` or `await response.text()` settles.
upstreamBodyReadAt(s) ==
  /\ ev.type = "none"
  /\ LET w == inflight[s]
     IN /\ w.pc = "read"
        /\ \E readable \in BOOLEAN :
             Apply(s,
               Answer(w.req, Unread, w.userId,
                 IF ~readable THEN InternalError(<<"body unreadable">>)
                 ELSE IF ok(w.upstream) THEN reply(200, UpstreamJson)
                 ELSE InternalError(ApiError(w.provider, w.upstream,
                                             UpstreamText)),
                 w.provider, 1) @@ Base, "read")

upstreamBodyRead == \E s \in BusySlots : upstreamBodyReadAt(s)

(***************************************************************************)
(* Specifications                                                          *)
(***************************************************************************)
Start ==
  /\ server \in {"simple", "express"}
  /\ now = 0
  /\ programmes = [u \in UserIds |-> <<>>]
  /\ scripts = [u \in UserIds |-> <<>>]
  /\ inflight = [s \in 1..MaxInFlight |-> Idle]
  /\ ev = NoEvent
  /\ created = <<>>
  /\ deleted = [k \in Kinds |-> 0]

\* The record store under the requests of the record routes.
Init == Start /\ env = Credentials

Next ==
  \/ Tick
  \/ handleRequest(StoreRequests, MaxCreated)
  \/ requestBodyEnd
  \/ expressRequest(StoreRequests, MaxCreated)
  \/ Forget

Spec == Init /\ [][Next]_vars

\* The router under every method, path and Authorization header.
NextRouter ==
  \/ Tick
  \/ handleRequest(RouterRequests, MaxRouted)
  \/ requestBodyEnd
  \/ expressRequest(RouterRequests, MaxRouted)
  \/ Forget

SpecRouter == Init /\ [][NextRouter]_vars

\* The generation proxy under every configuration of the credentials.
InitGenerate == Start /\ env \in {{}, {"GEMINI_API_KEY"}, Credentials}

NextGenerate ==
  \/ handleRequest(GenerateRequests, 0)
  \/ requestBodyEnd
  \/ expressRequest(GenerateRequests, 0)
  \/ fetchSettled
  \/ upstreamBodyRead
  \/ Forget

SpecGenerate == InitGenerate /\ [][NextGenerate]_vars

\* both builds: the upstream of a pending provider call never answers, so
\* the promise of its fetch is never settled (fetch has no timeout).
upstreamHangs(s) ==
  /\ ev.type = "none"
  /\ inflight[s].pc = "fetch"
  /\ inflight' = [inflight EXCEPT ![s].pc = "hung"]
  /\ UNCHANGED <<server, env, now, programmes, scripts, ev, created, deleted>>

\* The server with one more handler in flight than elsewhere, under provider
\* calls that may hang, the health check and the programme collection.
HangSlots == 1..(MaxInFlight + 1)

HangRequests ==
  GenerateRequests
    \cup {[method |-> "GET", path |-> HealthPath, auth |-> <<>>]}
    \cup [method : {"GET", "POST"}, path : {collectionPath("programme")},
          auth : {ValidAuth}]

InitHang ==
  /\ server \in {"simple", "express"}
  /\ env = Credentials
  /\ now = 0
  /\ programmes = [u \in UserIds |-> <<>>]
  /\ scripts = [u \in UserIds |-> <<>>]
  /\ inflight = [s \in HangSlots |-> Idle]
  /\ ev = NoEvent
  /\ created = <<>>
  /\ deleted = [k \in Kinds |-> 0]

NextHang ==
  \/ handleRequest(HangRequests, MaxRouted)
  \/ expressRequest(HangRequests, MaxRouted)
  \/ \E s \in HangSlots : requestBodyEndAt(s)
  \/ \E s \in HangSlots : fetchSettledAt(s)
  \/ \E s \in HangSlots : upstreamBodyReadAt(s)
  \/ \E s \in HangSlots : upstreamHangs(s)
  \/ Forget

\* The event loop runs every callback that is ready: a handler whose body
\* has arrived, whose fetch has settled or whose upstream body has been read
\* is resumed after finitely many other callbacks.
EventLoopFair ==
  /\ WF_vars(Forget)
  /\ \A s \in HangSlots :
       /\ SF_vars(requestBodyEndAt(s))
       /\ SF_vars(fetchSettledAt(s))
       /\ SF_vars(upstreamBodyReadAt(s))

SpecHang == InitHang /\ [][NextHang]_vars /\ EventLoopFair

(***************************************************************************)
(* Properties                                                              *)
(***************************************************************************)
\* the ids of the records of an array
IdsOf(list) == {list[i].id : i \in {j \in 1..Len(list) : list[j] # Hole}}

\* the ranks, in creation order, of the records created for userId in kind
RanksOf(userId, kind) ==
  {j \in 1..Len(created) :
     created[j].userId = userId /\ created[j].kind = kind}

\* the step just taken handled a request with this method on an item route
\* (collection route) of `kind`, in this phase of its handler
OnItem(e, method, kind, phase) ==
  /\ e.type # "none"
  /\ e.phase = phase
  /\ e.req.method = method
  /\ isItem(e.req.path, kind)

OnCollection(e, method, kind, phase) ==
  /\ e.type # "none"
  /\ e.phase = phase
  /\ e.req.method = method
  /\ isCollection(e.req.path, kind)

\* the phase in which a handler has the request body: the Express build gets
\* it parsed on entry, the simple build reads it at its first await
bodyPhase == IF server = "simple" THEN "body" ELSE "entry"

\* C1: as long as no record of a kind has been deleted, a user's array of
\* that kind holds exactly the records created for the user, one per
\* successful POST, the last created first (each create put its record at
\* index 0 and kept the order of the others), and a GET of the collection
\* returns that array.
C1_ListAfterCreates ==
  \A k \in Kinds :
    /\ deleted[k] = 0 =>
         \A u \in UserIds :
           LET list == listOf(store(k), u)
               N == Cardinality(RanksOf(u, k))
           IN /\ Len(list) = N
              /\ \A i \in 1..N :
                   /\ list[i] # Hole
                   /\ list[i].seq \in RanksOf(u, k)
                   /\ list[i].id = created[list[i].seq].id
                   /\ \A j \in 1..N : i < j => list[i].seq > list[j].seq
    /\ OnCollection(ev, "GET", k, "entry") /\ ev.userId # NullUser =>
         /\ ev.type = "respond"
         /\ ev.status = 200
         /\ ev.payload = listOf(store(k), ev.userId)

\* C1 witness: a GET answered with two records, none ever deleted.
C1_Witness ==
  \E k \in Kinds :
    /\ deleted[k] = 0
    /\ OnCollection(ev, "GET", k, "entry")
    /\ ev.type = "respond"
    /\ ev.status = 200
    /\ Len(ev.payload) = 2
    /\ Cardinality(RanksOf(ev.userId, k)) = 2

\* C2: no two records ever created for the same user in the same kind carry
\* the same id, deleted records included.
C2_IdsUnique ==
  \A i, j \in 1..Len(created) :
    (/\ i # j
     /\ created[i].userId = created[j].userId
     /\ created[i].kind = created[j].kind)
      => created[i].id # created[j].id

\* C3: a step taken for one user identity leaves the programme and script
\* arrays of every other identity as they were, and no array ever holds a
\* record that was created for another identity; what a GET returns is the
\* caller's own array.
C3_Isolation ==
  /\ [](\A k \in Kinds, u \in UserIds :
          \A i \in 1..Len(store(k)[u]) :
            store(k)[u][i] # Hole =>
              store(k)[u][i].owner \in {u, "none"})
  /\ [][ev'.type # "none" /\ ev.type = "none" =>
          \A u \in UserIds \ {ev'.userId} :
            /\ programmes'[u] = programmes[u]
            /\ scripts'[u] = scripts[u]]_vars

\* C3 witness: a record created for one identity is in its array while the
\* array of the other identity is empty.
C3_Witness ==
  /\ ev.type = "respond"
  /\ ev.status = 201
  /\ ev.userId = "demo-user"
  /\ \E k \in Kinds :
       /\ Len(store(k)["demo-user"]) > 0
       /\ store(k)["demo-user"][1].owner = "demo-user"
       /\ store(k)["other-user"] = <<>>

\* C4: a PUT on an item route whose id is not in the caller's array when the
\* request arrives is answered 404 and leaves the arrays as they were.
C4_PutUnknownId ==
  [][\A k \in Kinds :
       (/\ ev.type = "none"
        /\ OnItem(ev', "PUT", k, "entry")
        /\ ev'.userId # NullUser
        /\ lastSegment(ev'.req.path) \notin IdsOf(listOf(store(k), ev'.userId)))
         => /\ ev'.type = "respond"
            /\ ev'.status = 404
            /\ UNCHANGED <<programmes, scripts>>]_vars

\* C5: a DELETE of an id that is in the caller's array is answered 204 and
\* the id is in the array no longer, so that the next DELETE of that id,
\* like every DELETE of an id that is not in the array, is answered 404.
C5_DeleteTwice ==
  [][\A k \in Kinds :
       (/\ ev.type = "none"
        /\ OnItem(ev', "DELETE", k, "entry")
        /\ ev'.userId # NullUser)
         => LET id == lastSegment(ev'.req.path)
                before == listOf(store(k), ev'.userId)
                after == listOf(IF k = "programme" THEN programmes'
                                ELSE scripts', ev'.userId)
            IN /\ ev'.type = "respond"
               /\ id \in IdsOf(before) =>
                    ev'.status = 204 /\ id \notin IdsOf(after)
               /\ id \notin IdsOf(before) => ev'.status = 404]_vars

\* the step just taken ran the part of the generate handler that has the
\* body, for an authenticated POST /api/generate whose body is a JSON object
GenerateCall(e) ==
  /\ e.type # "none"
  /\ e.phase = bodyPhase
  /\ e.req.method = "POST"
  /\ e.req.path = GeneratePath
  /\ e.userId # NullUser
  /\ e.data.text \in {"object", "empty"}

KnownModels == {"gemini", "claude", "openai", "chatgpt"}

\* the model of the body is one of the four names, whatever its case
IsKnownModel(m) == m[1] = "str" /\ toLowerCase(m[2]) \in KnownModels

\* the credential the documentation assigns to a model name
CredentialOf(name) ==
  CASE name = "gemini" -> "GEMINI_API_KEY"
    [] name = "claude" -> "CLAUDE_API_KEY"
    [] OTHER -> "OPENAI_API_KEY"

\* C6: an authenticated POST /api/generate whose model is none of gemini,
\* claude, openai, chatgpt (in any case) is answered 400 and no outbound
\* provider call is issued for it.
C6_UnknownModel ==
  GenerateCall(ev) /\ ~IsKnownModel(ev.data.value["model"])
    => /\ ev.type = "respond"
       /\ ev.status = 400
       /\ ev.fetch = "none"
       /\ ev.calls = 0

AuthRequired(r) ==
  \/ r.method = "POST" /\ r.path = GeneratePath
  \/ \E k \in Kinds :
       \/ r.method \in {"GET", "POST"} /\ isCollection(r.path, k)
       \/ r.method \in {"PUT", "DELETE"} /\ isItem(r.path, k)

\* the header is 'Bearer ' followed by a non-empty token
WellFormedAuth(h) ==
  /\ Len(h) > Len(Bearer)
  /\ \A i \in 1..Len(Bearer) : h[i] = Bearer[i]

\* C8: on every auth-required route a request whose Authorization header is
\* absent, does not start with 'Bearer ' or has an empty token is answered
\* 401 on entry; it changes neither store, leaves no handler in flight and
\* issues no outbound provider call.
C8_Unauthenticated ==
  [][(/\ ev'.type # "none"
      /\ ev'.phase = "entry"
      /\ AuthRequired(ev'.req)
      /\ ~WellFormedAuth(ev'.req.auth))
       => /\ ev'.type = "respond"
          /\ ev'.status = 401
          /\ ev'.fetch = "none"
          /\ ev'.calls = 0
          /\ UNCHANGED <<programmes, scripts, inflight>>]_vars

\* C8 witness: a PUT on an item route with an empty token was answered 401.
C8_Witness ==
  /\ ev.type = "respond"
  /\ ev.status = 401
  /\ ev.req.auth = Bearer
  /\ ev.req.method = "PUT"
  /\ \E k \in Kinds : isItem(ev.req.path, k)

\* C9: an OPTIONS request, whatever its path and Authorization header, is
\* answered 204 with the CORS headers and no body on entry, without
\* authentication, store change, suspended handler or provider call.
C9_Preflight ==
  [][(ev'.type # "none" /\ ev'.req.method = "OPTIONS")
       => /\ ev'.type = "respond"
          /\ ev'.phase = "entry"
          /\ ev'.status = 204
          /\ ev'.headers = CorsHeaders
          /\ ev'.payload = NoPayload
          /\ ev'.userId = NullUser
          /\ ev'.fetch = "none"
          /\ ev'.calls = 0
          /\ UNCHANGED <<programmes, scripts, inflight>>]_vars

\* C9 witness: OPTIONS on an unknown path with a valid token, answered 204.
C9_Witness ==
  /\ ev.type = "respond"
  /\ ev.req.method = "OPTIONS"
  /\ ev.req.path = UnknownPath
  /\ ev.req.auth = ValidAuth
  /\ ev.status = 204

\* the (method, path) pairs of the route table
Tabulated(r) ==
  \/ r.method = "OPTIONS"
  \/ r.method = "GET" /\ r.path = HealthPath
  \/ AuthRequired(r)

\* C10: a request whose method and path match no route of the table is
\* answered 404, with or without a valid bearer token.
C10_UnknownRoute ==
  (ev.type # "none" /\ ev.phase = "entry" /\ ~Tabulated(ev.req))
    => ev.type = "respond" /\ ev.status = 404

\* the array of `kind` after the step
storeNext(kind) == IF kind = "programme" THEN programmes' ELSE scripts'

\* C11: while a handler that has looked up the index of its record has yet
\* to write the record (it is suspended between the two), no step of another
\* request changes the array it has read: the array stays as it is until the
\* handler itself resumes.
C11_ReadThenWriteAtomic ==
  [][\A s \in Slots :
       (inflight[s].pc = "body" /\ inflight[s].route = "update")
         => \/ inflight'[s].pc = "idle"
            \/ listOf(storeNext(inflight[s].kind), inflight[s].userId)
                 = listOf(store(inflight[s].kind), inflight[s].userId)]_vars

\* the statuses of an error response
ErrorStatuses == {400, 401, 404, 500}

\* C12: a step that answers a request with 400, 401, 404 or 500 leaves both
\* stores (and the counts of creations and deletions) as they were and
\* leaves no handler of that request in flight; no earlier step of such a
\* request (one that ends at an await) changes a store either; and between
\* any two steps the server accepts a further request.
C12_ErrorsConfined ==
  /\ [][(ev'.type = "respond" /\ ev'.status \in ErrorStatuses)
          => /\ UNCHANGED <<programmes, scripts, created, deleted>>
             /\ \A s \in Slots :
                  inflight'[s] # inflight[s] => inflight'[s] = Idle]_vars
  /\ [][ev'.type = "await" => UNCHANGED <<programmes, scripts>>]_vars
  /\ [](ev.type = "none" =>
          ENABLED (\/ handleRequest(StoreRequests, MaxCreated)
                   \/ expressRequest(StoreRequests, MaxCreated)))

\* C12 witness: a PUT on a record of a non-empty array whose body is not
\* JSON was answered 500.
C12_Witness ==
  /\ \E k \in Kinds : OnItem(ev, "PUT", k, "body")
  /\ ev.type = "respond"
  /\ ev.status = 500
  /\ ev.data = BadJson
  /\ Len(listOf(programmes, ev.userId)) + Len(listOf(scripts, ev.userId)) > 0

\* the statuses for which response.ok is true
SuccessStatuses == 200..299

Invoked(e) == e.type # "none" /\ e.provider # "none"

\* C14: every request for which a provider adapter has been invoked has
\* had exactly one outbound call issued for it, at every step from the
\* invocation to its response.
C14_ExactlyOneCall == Invoked(ev) => ev.calls = 1

\* C14, amended: an adapter invoked with its credential configured issues
\* exactly one outbound call, in the step of the invocation; no later step
\* of the request (the fetch settling with a success status, a non-success
\* status or a transport error, the body being read) issues another, and a
\* 200 is only given after the call. An adapter invoked with its credential
\* absent issues no call at all.
C14_OneCallWhenConfigured ==
  /\ Invoked(ev) =>
       /\ ev.calls = IF apiKeyName(ev.provider) \in env THEN 1 ELSE 0
       /\ ev.fetch # "none" <=>
            (ev.phase = bodyPhase /\ apiKeyName(ev.provider) \in env)
       /\ ev.fetch # "none" => ev.fetch = ev.provider /\ ev.type = "await"
       /\ ev.type = "respond" /\ ev.status = 200 =>
            ev.phase = "read" /\ ev.calls = 1
  /\ ev.type # "none" /\ ~Invoked(ev) => ev.calls = 0 /\ ev.fetch = "none"

\* C14 witness: a request answered 200 after its upstream body was read,
\* with one call issued for it.
C14_Witness ==
  /\ Invoked(ev)
  /\ ev.type = "respond"
  /\ ev.phase = "read"
  /\ ev.status = 200
  /\ ev.calls = 1

\* C15: an authenticated POST /api/generate whose model is a known one with
\* its credential configured and whose prompt is the empty string is not
\* answered by the handler itself: one outbound call to the provider is
\* issued for it and the request waits for the upstream.
C15_EmptyPromptForwarded ==
  LET m == ev.data.value["model"]
  IN (/\ GenerateCall(ev)
      /\ IsKnownModel(m)
      /\ CredentialOf(toLowerCase(m[2])) \in env
      /\ ev.data.value["prompt"] = Str(""))
       => /\ ev.type = "await"
          /\ ev.fetch # "none"
          /\ ev.calls = 1

\* C16: a generate request whose upstream never answers stays pending for
\* ever, and blocks nothing: whatever requests are hung, every other request
\* in flight (waiting for its body, for a fetch that does settle or for the
\* upstream body) is eventually answered, and between any two steps the
\* server accepts a further request (the health check at least).
C16_HungCallBlocksNothing ==
  /\ \A s \in HangSlots :
       /\ [](inflight[s].pc = "hung" => [](inflight[s].pc = "hung"))
       /\ (inflight[s].pc \in {"body", "fetch", "read"})
            ~> (inflight[s].pc \in {"idle", "hung"})
  /\ [](ev.type = "none" =>
          ENABLED (\/ handleRequest(HangRequests, MaxRouted)
                   \/ expressRequest(HangRequests, MaxRouted)))

\* C16 witness: while the call of one request hangs, the generate call of
\* another request has been answered 200.
C16_Witness ==
  /\ \E s \in Slots : inflight[s].pc = "hung"
  /\ Invoked(ev)
  /\ ev.type = "respond"
  /\ ev.phase = "read"
  /\ ev.status = 200

\* the frame of a PUT answered 200 by the step just taken, on the caller's
\* array of programmes: the record with the path's id, at its place i, got
\* the body's name, genre, targetAudience, episodeLength and styleReferences
\* (an absent styleReferences may be stored as the empty array) and a fresh
\* updatedAt, kept its id and createdAt, and was returned; the array kept
\* its length and all its other entries.
PutFrame(before, after, id, body, payload) ==
  \E i \in 1..Len(before) :
    /\ before[i] # Hole
    /\ before[i].id = id
    /\ Len(after) = Len(before)
    /\ \A j \in 1..Len(before) : j # i => after[j] = before[j]
    /\ after[i] # Hole
    /\ after[i].id = id
    /\ after[i].createdAt = before[i].createdAt
    /\ after[i].name = body["name"]
    /\ after[i].genre = body["genre"]
    /\ after[i].targetAudience = body["targetAudience"]
    /\ after[i].episodeLength = body["episodeLength"]
    /\ after[i].styleReferences \in
         {body["styleReferences"], JsOr(body["styleReferences"], Arr(<<>>))}
    /\ after[i].updatedAt = Date(now)
    /\ payload = after[i]

\* C17: a PUT on a programme that is answered 200 replaces the mutable
\* fields of the record with the path's id by the values of the body and
\* stamps updatedAt; the record's id, createdAt and position, the length of
\* the array and every other record stay as they were.
C17_PutFrame ==
  [][(/\ ev.type = "none"
      /\ OnItem(ev', "PUT", "programme", bodyPhase)
      /\ ev'.type = "respond"
      /\ ev'.status = 200)
       => PutFrame(listOf(programmes, ev'.userId),
                   listOf(programmes', ev'.userId),
                   lastSegment(ev'.req.path), ev'.data.value,
                   ev'.payload)]_vars

\* a request that carries the Authorization header h
WithAuth(h) == [method |-> "GET", path |-> HealthPath, auth |-> h]

\* C18: both auth shims resolve any two well-formed bearer headers, whatever
\* their tokens, to the same identity 'demo-user'; every request on an
\* auth-required route with such a header is handled for 'demo-user', every
\* record is created for 'demo-user' whatever token created it, and a GET
\* of a collection returns the array of 'demo-user'.
C18_TokenIndependent ==
  /\ \A h1, h2 \in {h \in AuthHeaders : WellFormedAuth(h)} :
       /\ getUserId(WithAuth(h1)) = getUserId(WithAuth(h2))
       /\ authenticateUser(WithAuth(h1)) = authenticateUser(WithAuth(h2))
       /\ getUserId(WithAuth(h1)) = "demo-user"
       /\ authenticateUser(WithAuth(h1)) = "demo-user"
  /\ (/\ ev.type # "none"
      /\ AuthRequired(ev.req)
      /\ WellFormedAuth(ev.req.auth)) => ev.userId = "demo-user"
  /\ \A n \in 1..Len(created) : created[n].userId = "demo-user"
  /\ \A k \in Kinds :
       (/\ OnCollection(ev, "GET", k, "entry")
        /\ WellFormedAuth(ev.req.auth))
         => ev.payload = listOf(store(k), "demo-user")

\* C18 witness: a GET with one token returned a record that a request with
\* another token had created.
C18_Witness ==
  \E k \in Kinds :
    /\ OnCollection(ev, "GET", k, "entry")
    /\ ev.type = "respond"
    /\ ev.status = 200
    /\ ev.req.auth = Bearer \o <<"y">>
    /\ Len(ev.payload) > 0
    /\ created[ev.payload[1].seq].auth = ValidAuth

\* C19: a step taken for a request either writes its one response, after
\* which no handler of the request is in flight, or ends at an await (of
\* the body, of the fetch or of the upstream body) without a response,
\* after which exactly one handler of the request is in flight. A request
\* answered on arrival was never in flight; a request answered later was in
\* flight until then; a handler leaves flight only when its response is
\* written; and a handler in flight is always at one of the awaits.
C19_OneResponse ==
  /\ [](\A s \in Slots :
          inflight[s].pc \in {"idle", "body", "fetch", "read", "hung"})
  /\ [][(ev.type = "none" /\ ev'.type = "respond") =>
          \/ ev'.phase = "entry" /\ inflight' = inflight
          \/ /\ ev'.phase # "entry"
             /\ \E s \in Slots :
                  /\ inflight[s].pc # "idle"
                  /\ inflight[s].req = ev'.req
                  /\ inflight' = [inflight EXCEPT ![s] = Idle]]_vars
  /\ [][(ev.type = "none" /\ ev'.type = "await") =>
          \E s \in Slots :
            /\ inflight'[s].pc \in {"body", "fetch", "read"}
            /\ inflight'[s].req = ev'.req
            /\ \A t \in Slots \ {s} : inflight'[t] = inflight[t]
            /\ IF ev'.phase = "entry" THEN inflight[s] = Idle
               ELSE inflight[s].pc # "idle" /\ inflight[s].req = ev'.req]_vars
  /\ [][\A s \in Slots :
          (inflight[s].pc # "idle" /\ inflight'[s].pc = "idle") =>
             /\ ev.type = "none"
             /\ ev'.type = "respond"
             /\ ev'.req = inflight[s].req]_vars

\* C19 witness: a request that was suspended on its body read has been
\* answered by the catch branch, and no handler is in flight.
C19_Witness ==
  /\ ev.type = "respond"
  /\ ev.phase = "body"
  /\ ev.status = 500
  /\ \A s \in Slots : inflight[s] = Idle

\* C20: a DELETE answered 204 removes from the caller's array of that kind
\* exactly one entry, a record whose id is the path's id: the array is one
\* shorter and its other entries are as they were, in the same order; the
\* caller's array of the other kind is untouched.
C20_DeleteFrame ==
  [][\A k \in Kinds :
       (/\ ev.type = "none"
        /\ OnItem(ev', "DELETE", k, "entry")
        /\ ev'.type = "respond"
        /\ ev'.status = 204)
         => LET before == listOf(store(k), ev'.userId)
                after == listOf(storeNext(k), ev'.userId)
                id == lastSegment(ev'.req.path)
            IN /\ \E i \in 1..Len(before) :
                    /\ before[i] # Hole
                    /\ before[i].id = id
                    /\ Len(after) = Len(before) - 1
                    /\ \A j \in 1..Len(after) :
                         after[j] = before[IF j < i THEN j ELSE j + 1]
               /\ \A o \in Kinds \ {k} :
                    listOf(storeNext(o), ev'.userId)
                      = listOf(store(o), ev'.userId)]_vars

\* C20 witness: a DELETE answered 204 took one of two records and left the
\* other.
C20_Witness ==
  \E k \in Kinds :
    /\ OnItem(ev, "DELETE", k, "entry")
    /\ ev.type = "respond"
    /\ ev.status = 204
    /\ Len(listOf(store(k), ev.userId)) = 1
    /\ listOf(store(k), ev.userId)[1] # Hole
    /\ listOf(store(k), ev.userId)[1].id # lastSegment(ev.req.path)

\* C21: a PUT on an item route that is answered 200, whatever requests of
\* the same user were handled while it was suspended on its body, returns a
\* record that carries the path's id, and changes no entry of the caller's
\* array other than a record with that id; the array keeps its length.
C21_PutOnlyItsId ==
  [][\A k \in Kinds :
       (/\ ev.type = "none"
        /\ OnItem(ev', "PUT", k, bodyPhase)
        /\ ev'.type = "respond"
        /\ ev'.status = 200)
         => LET before == listOf(store(k), ev'.userId)
                after == listOf(storeNext(k), ev'.userId)
                id == lastSegment(ev'.req.path)
            IN /\ ev'.payload.id = id
               /\ Len(after) = Len(before)
               /\ \A j \in 1..Len(before) :
                    after[j] # before[j] =>
                      /\ before[j] # Hole
                      /\ before[j].id = id
                      /\ after[j] # Hole
                      /\ after[j].id = id]_vars

\* C22: in every state each user's array of each kind has no hole, every
\* entry of it has an id and a createdAt, and its length is the number of
\* the user's successful creates of that kind less the number of successful
\* deletes.
C22_DenseWellFormed ==
  \A k \in Kinds :
    /\ \A u \in UserIds :
         \A i \in 1..Len(listOf(store(k), u)) :
           LET record == listOf(store(k), u)[i]
           IN /\ record # Hole
              /\ record.id # Undefined
              /\ record.createdAt # Undefined
    /\ Len(listOf(store(k), "demo-user"))
         = Cardinality(RanksOf("demo-user", k)) - deleted[k]
    /\ Len(listOf(store(k), "other-user"))
         = Cardinality(RanksOf("other-user", k))

====
